---------------------------- MODULE Spec2Model ----------------------------
(***************************************************************************)
(* Domain-ate: the domain availability handler (src/api/check-domains.js), *)
(* the authenticated suggestion handler with its monthly usage counter     *)
(* (src/api/create-checkout.js, second module of the file) and the Stripe  *)
(* webhook handler (src/api/stripe-webhook.js).                            *)
(*                                                                         *)
(* Strings of the program are modelled as sequences of one-character       *)
(* strings, so that toLowerCase, trim, the validation regular expression   *)
(* and parseFloat are computed character by character.                     *)
(*                                                                         *)
(* JSON values of the result mapping are the strings "true", "false" and   *)
(* "null".  Numbers produced by parseFloat are kept in hundredths.         *)
(***************************************************************************)
EXTENDS Integers, Sequences, FiniteSets, TLC

VARIABLES
    env,          \* process.env: which registrar credentials are set
    pc,           \* position of the handler: "idle", "primary", "fanout", "done"
    req,          \* the request being handled
    sanitised,    \* const sanitised of the handler
    primary,      \* the registrar query of this request: calls issued, outcome
    lookups,      \* one entry per rdapCheck call of this request; listed:
                  \* the directory it was answered lists its suffix
    bootFetches,  \* fetches of the IANA bootstrap file issued by this request
    rdapGets,     \* registry GETs issued by this request
    res,          \* the response sent for this request
    dirFetched,   \* some bootstrap fetch of this process has succeeded
    sanRaw,       \* sanitiser on its own: the domains array
    sanOut,       \* sanitiser on its own: the sanitised batch
    sanDone,      \* sanitiser on its own: the batch has been computed
    usage,        \* Upstash: the usage counter of this month, per user
    usageStart,   \* the usage counters when the requests of the model begin
    sreq,         \* suggestion handler: one entry per request
    hooks,        \* webhook handler: one entry per request
    clerkPlan     \* Clerk: public_metadata.plan per user, "" when never set

vars == <<env, pc, req, sanitised, primary, lookups, bootFetches, rdapGets,
          res, dirFetched, sanRaw, sanOut, sanDone,
          usage, usageStart, sreq, hooks, clerkPlan>>

handlerVars == <<env, pc, req, sanitised, primary, lookups, bootFetches,
                 rdapGets, res, dirFetched>>

sanVars == <<sanRaw, sanOut, sanDone>>

suggestVars == <<usage, usageStart, sreq>>

webhookVars == <<hooks, clerkPlan>>

---------------------------------------------------------------------------
(* Bounds of the model *)

\* longest domains array of a request to the handler
MaxRaw == 2

\* longest domains array given to the sanitiser on its own
MaxSanRaw == 22

\* most entries other than "a.io" in an array given to the sanitiser on its own
MaxSanOdd == 2

\* requests to the suggestion handler, possibly in flight together
MaxReq == 2

\* requests to the webhook handler
MaxHooks == 1

(* Program constants *)

\* const FREE_LIMIT = 5
FREE_LIMIT == 5

\* .slice(0, 20)
BatchCeiling == 20

\* [a-z]{2,}
MinTldLen == 2

---------------------------------------------------------------------------
(* Characters and strings *)

UpperChars == <<"A","B","C","D","E","F","G","H","I","J","K","L","M",
                "N","O","P","Q","R","S","T","U","V","W","X","Y","Z">>

LowerChars == <<"a","b","c","d","e","f","g","h","i","j","k","l","m",
                "n","o","p","q","r","s","t","u","v","w","x","y","z">>

DigitChars == <<"0","1","2","3","4","5","6","7","8","9">>

Range(s) == {s[i] : i \in DOMAIN s}

LowerSet == Range(LowerChars)

DigitSet == Range(DigitChars)

WhiteSpace == {" ", "\t", "\n"}

\* String.prototype.toLowerCase, one character
LowerChar(c) ==
    IF \E i \in DOMAIN UpperChars : UpperChars[i] = c
    THEN LowerChars[CHOOSE i \in DOMAIN UpperChars : UpperChars[i] = c]
    ELSE c

\* String.prototype.toLowerCase
toLowerCase(s) == [i \in DOMAIN s |-> LowerChar(s[i])]

\* String.prototype.trim
trim(s) ==
    LET keep == {i \in DOMAIN s : s[i] \notin WhiteSpace}
    IN  IF keep = {} THEN <<>>
        ELSE LET lo == CHOOSE i \in keep : \A j \in keep : i <= j
                 hi == CHOOSE i \in keep : \A j \in keep : j <= i
             IN  SubSeq(s, lo, hi)

\* /^[a-z0-9][a-z0-9\-]*\.[a-z]{2,}$/.test(d)
DomainRegexTest(d) ==
    \E k \in DOMAIN d :
        /\ d[k] = "."
        /\ k >= 2
        /\ d[1] \in LowerSet \cup DigitSet
        /\ \A i \in 2..(k - 1) : d[i] \in LowerSet \cup DigitSet \cup {"-"}
        /\ Len(d) - k >= MinTldLen
        /\ \A i \in (k + 1)..Len(d) : d[i] \in LowerSet

\* Array.prototype.filter with the validation regular expression
RECURSIVE FilterValid(_)
FilterValid(s) ==
    IF s = <<>> THEN <<>>
    ELSE IF DomainRegexTest(Head(s))
         THEN <<Head(s)>> \o FilterValid(Tail(s))
         ELSE FilterValid(Tail(s))

\* mutant: the slice starts after the first entry
Slice0SkipsFirst(s, n) == SubSeq(s, 2, IF Len(s) < n THEN Len(s) ELSE n)

\* Array.prototype.slice(0, n)
Slice0(s, n) == SubSeq(s, 1, IF Len(s) < n THEN Len(s) ELSE n)

\* mutant: the entries are normalised and truncated but not filtered
SanitiseNoFilter(domains) ==
    Slice0([i \in DOMAIN domains |-> trim(toLowerCase(domains[i]))], BatchCeiling)

\* mutant: the array is truncated before it is filtered
SanitiseSliceFirst(domains) ==
    FilterValid(Slice0([i \in DOMAIN domains |-> trim(toLowerCase(domains[i]))],
                       BatchCeiling))

\* domains.map(lowercase, trim).filter(regex).slice(0, 20)
Sanitise(domains) ==
    Slice0(FilterValid([i \in DOMAIN domains |-> trim(toLowerCase(domains[i]))]),
           BatchCeiling)

---------------------------------------------------------------------------
(* Strings of the model *)

\* "a.io"
sAIo == <<"a", ".", "i", "o">>

\* " B.Co", which normalises to "b.co"
sBCoRaw == <<" ", "B", ".", "C", "o">>

\* "b.co"
sBCo == <<"b", ".", "c", "o">>

\* "a.b.io": three labels
sMulti == <<"a", ".", "b", ".", "i", "o">>

\* "-a.io": leading hyphen
sHyphen == <<"-", "a", ".", "i", "o">>

\* entries a caller may put in the domains array
RawPool == {sAIo, sBCoRaw, sMulti, sHyphen}

\* "B.CO", as a registrar may spell it
sBCoUpper == <<"B", ".", "C", "O">>

\* "true"
sTrue == <<"t", "r", "u", "e">>

\* "True"
sTrueCap == <<"T", "r", "u", "e">>

\* "false"
sFalse == <<"f", "a", "l", "s", "e">>

\* "250.00"
sP250 == <<"2", "5", "0", ".", "0", "0">>

\* "0"
sP0 == <<"0">>

\* "-5"
sPNeg == <<"-", "5">>

\* "abc"
sPJunk == <<"a", "b", "c">>

\* "io", "co"
tIo == <<"i", "o">>

tCo == <<"c", "o">>

\* "u/" and "u" stand for a registry base URL with and without a trailing slash
uSlash == <<"u", "/">>

uPlain == <<"u">>

\* "/"
uOnlySlash == <<"/">>

\* JSON values of the result mapping
JTrue == "true"

JFalse == "false"

JNull == "null"

JBool(b) == IF b THEN JTrue ELSE JFalse

\* obj[k] = v
Put(m, k, v) == [x \in (DOMAIN m) \cup {k} |-> IF x = k THEN v ELSE m[x]]

EmptyMap == [x \in {} |-> JNull]

---------------------------------------------------------------------------
(* parseFloat: the longest prefix [ws][+-]digits[.digits]; NaN when it holds
   no digit.  The value is kept in hundredths (two fraction digits). *)

DigitValue(c) == (CHOOSE i \in DOMAIN DigitChars : DigitChars[i] = c) - 1

RECURSIVE DigitPrefixLen(_)
DigitPrefixLen(s) ==
    IF s = <<>> \/ Head(s) \notin DigitSet THEN 0
    ELSE 1 + DigitPrefixLen(Tail(s))

RECURSIVE DigitsValue(_)
DigitsValue(s) ==
    IF s = <<>> THEN 0
    ELSE DigitsValue(SubSeq(s, 1, Len(s) - 1)) * 10 + DigitValue(s[Len(s)])

RECURSIVE TrimStart(_)
TrimStart(s) ==
    IF s # <<>> /\ Head(s) \in WhiteSpace THEN TrimStart(Tail(s)) ELSE s

Hundredths(f) ==
    (IF Len(f) >= 1 THEN DigitValue(f[1]) * 10 ELSE 0)
    + (IF Len(f) >= 2 THEN DigitValue(f[2]) ELSE 0)

parseFloat(str) ==
    LET t == TrimStart(str)
        signed == t # <<>> /\ Head(t) \in {"+", "-"}
        neg == t # <<>> /\ Head(t) = "-"
        u == IF signed THEN Tail(t) ELSE t
        ip == DigitPrefixLen(u)
        rest == SubSeq(u, ip + 1, Len(u))
        hasDot == rest # <<>> /\ Head(rest) = "."
        fp == IF hasDot THEN DigitPrefixLen(Tail(rest)) ELSE 0
        frac == IF hasDot THEN SubSeq(Tail(rest), 1, fp) ELSE <<>>
        mag == DigitsValue(SubSeq(u, 1, ip)) * 100 + Hundredths(frac)
    IN  IF ip = 0 /\ fp = 0 THEN [nan |-> TRUE, val |-> 0]
        ELSE [nan |-> FALSE, val |-> IF neg THEN 0 - mag ELSE mag]

isNaN(n) == n.nan

---------------------------------------------------------------------------
(* The registrar response.  The body is modelled by what the handler reads
   of it: whether it holds an error marker, and the attribute lists of its
   DomainCheckResult elements.  An attribute that is missing or empty (the
   regular expressions ask for one character at least) is <<>>. *)

NoXml == [marker |-> FALSE, records |-> <<>>]

\* mutant: the marker counts only for a body without records
HasErrorMarkerNoRecords(xml) == xml.marker /\ xml.records = <<>>

\* xml.includes('Status="ERROR"') || xml.includes('ErrCount>0<')
HasErrorMarker(xml) == xml.marker

\* mutant: the Domain attribute is taken as spelled
AttrDomainAsSpelled(attrs) == attrs.Domain

\* (attrs.match(/Domain="([^"]+)"/i) || [])[1]?.toLowerCase()
AttrDomain(attrs) == toLowerCase(attrs.Domain)

\* (attrs.match(/Available="([^"]+)"/i) || [])[1]?.toLowerCase() === 'true'
AttrAvailable(attrs) == toLowerCase(attrs.Available) = sTrue

\* (attrs.match(/IsPremiumName="([^"]+)"/i) || [])[1]?.toLowerCase() === 'true'
AttrIsPremium(attrs) == toLowerCase(attrs.IsPremiumName) = sTrue

\* parseFloat((attrs.match(/PremiumRegistrationPrice="([^"]+)"/i) || [])[1] || '')
AttrPremPrice(attrs) == parseFloat(attrs.PremiumRegistrationPrice)

\* if (isPremium && !isNaN(premPrice))
KeepsPremiumPrice(attrs) == AttrIsPremium(attrs) /\ ~isNaN(AttrPremPrice(attrs))

\* the while loop over the DomainCheckResult elements
RECURSIVE ParseRecords(_, _, _)
ParseRecords(records, results, premiumPrices) ==
    IF records = <<>>
    THEN [results |-> results, premiumPrices |-> premiumPrices]
    ELSE LET attrs == Head(records)
             domain == AttrDomain(attrs)
         IN  IF domain # <<>>
             THEN ParseRecords(Tail(records),
                      Put(results, domain, JBool(AttrAvailable(attrs))),
                      IF KeepsPremiumPrice(attrs)
                      THEN Put(premiumPrices, domain, AttrPremPrice(attrs).val)
                      ELSE premiumPrices)
             ELSE ParseRecords(Tail(records), results, premiumPrices)

ParseXml(xml) == ParseRecords(xml.records, EmptyMap, EmptyMap)

\* mutant: an empty mapping passes too
HasResultsAlways(parsed) == Cardinality(DOMAIN parsed.results) >= 0

\* mutant: asks for more than one parsed record
HasResultsMut(parsed) == Cardinality(DOMAIN parsed.results) > 1

\* if (Object.keys(results).length > 0)
HasResults(parsed) == Cardinality(DOMAIN parsed.results) > 0

\* the record without a Domain attribute
rNoDomain ==
    [Domain |-> <<>>, Available |-> sTrue, IsPremiumName |-> sFalse,
     PremiumRegistrationPrice |-> <<>>]

\* a plain taken, non premium record of "a.io"
rPlainTaken ==
    [Domain |-> sAIo, Available |-> sFalse, IsPremiumName |-> sFalse,
     PremiumRegistrationPrice |-> <<>>]

FirstRecords ==
    {rNoDomain} \cup
    [Domain : {sAIo, sBCoUpper},
     Available : {<<>>, sTrueCap, sFalse},
     IsPremiumName : {sTrue, sFalse},
     PremiumRegistrationPrice : {<<>>, sP250, sP0, sPNeg, sPJunk}]

\* bodies the registrar may answer with
XmlBodies ==
    {[marker |-> TRUE, records |-> <<>>],
     [marker |-> TRUE, records |-> <<rPlainTaken>>],
     [marker |-> FALSE, records |-> <<>>]}
    \cup {[marker |-> FALSE, records |-> <<r>>] : r \in FirstRecords}
    \cup {[marker |-> FALSE, records |-> <<r, q>>] :
              r \in FirstRecords, q \in {rPlainTaken, rNoDomain}}

---------------------------------------------------------------------------
(* The registry directory (bootstrap.services) and the lookup of a suffix *)

\* const [sld, ...tldParts] = domain.split('.'); tldParts.join('.')
TldOf(domain) ==
    LET dots == {i \in DOMAIN domain : domain[i] = "."}
    IN  IF dots = {} THEN <<>>
        ELSE LET k == CHOOSE i \in dots : \A j \in dots : i <= j
             IN  SubSeq(domain, k + 1, Len(domain))

\* urls[0].replace(/\/$/, '')
StripSlash(u) ==
    IF u # <<>> /\ u[Len(u)] = "/" THEN SubSeq(u, 1, Len(u) - 1) ELSE u

\* some service of the directory lists the suffix: tlds.includes(tld)
SuffixListed(services, tld) ==
    \E i \in DOMAIN services : tld \in services[i].tlds

\* mutant: the first service with a URL is taken, whatever suffixes it lists
RECURSIVE FindBaseAnySuffix(_, _)
FindBaseAnySuffix(services, tld) ==
    IF services = <<>> THEN <<>>
    ELSE LET svc == Head(services)
         IN  IF Len(svc.urls) > 0
             THEN StripSlash(svc.urls[1])
             ELSE FindBaseAnySuffix(Tail(services), tld)

\* the for loop over bootstrap.services; <<>> stands for null (and for '')
RECURSIVE FindBase(_, _)
FindBase(services, tld) ==
    IF services = <<>> THEN <<>>
    ELSE LET svc == Head(services)
         IN  IF tld \in svc.tlds /\ Len(svc.urls) > 0
             THEN StripSlash(svc.urls[1])
             ELSE FindBase(Tail(services), tld)

Directories ==
    { << [tlds |-> {tIo}, urls |-> <<uSlash>>] >>,
      << [tlds |-> {tIo}, urls |-> <<>>],
         [tlds |-> {tIo, tCo}, urls |-> <<uPlain, uSlash>>] >>,
      << [tlds |-> {tCo}, urls |-> <<uOnlySlash>>] >>,
      << >> }

\* status codes a registry may answer with
Statuses == {200, 404, 429, 500}

\* mutant: every status but 404 is read as registered
StatusToAvailableMut(status) == IF status = 404 THEN JTrue ELSE JFalse

\* the tri-state answer of rdapCheck for a status
StatusToAvailable(status) ==
    IF status = 404 THEN JTrue
    ELSE IF status = 200 THEN JFalse
    ELSE JNull

---------------------------------------------------------------------------
(* The handler of check-domains.js *)

NoResponse ==
    [status |-> 0, kind |-> "none", results |-> EmptyMap,
     premiumPrices |-> EmptyMap, source |-> "none"]

NoRequest == [method |-> "none", isArray |-> FALSE, domains |-> <<>>]

\* transport: "none", "pending", "error", "timeout", "ok"; xml: the body read
NoPrimary == [calls |-> 0, transport |-> "none", xml |-> NoXml]

HandlerIdle ==
    /\ pc = "idle"
    /\ req = NoRequest
    /\ sanitised = <<>>
    /\ primary = NoPrimary
    /\ lookups = <<>>
    /\ bootFetches = 0
    /\ rdapGets = 0
    /\ res = NoResponse

\* res.status(s).end() and res.status(s).json({ error })
PlainResponse(status, kind) ==
    [status |-> status, kind |-> kind, results |-> EmptyMap,
     premiumPrices |-> EmptyMap, source |-> "none"]

\* res.status(200).json({ results, premiumPrices, source })
JsonResponse(results, premiumPrices, source) ==
    [status |-> 200, kind |-> "json", results |-> results,
     premiumPrices |-> premiumPrices, source |-> source]

\* mutant: one of the two credentials is enough
ConfiguredEither == env.key \/ env.user

\* ncApiKey && ncApiUser
Configured == env.key /\ env.user

\* rdapCheck(domain) up to its first await: the bootstrap fetch is issued
StartLookup(domain) ==
    [domain |-> domain, pc |-> "bootstrap", boot |-> "pending",
     listed |-> FALSE, rdapBase |-> <<>>, get |-> "none", status |-> 0,
     settled |-> "pending", available |-> "pending"]

\* sanitised.map(rdapCheck): every call runs to its first await
StartLookups(batch) == [i \in DOMAIN batch |-> StartLookup(batch[i])]

\* mutant: the directory is fetched only while none has been fetched
FanOutCached(batch) ==
    /\ pc' = "fanout"
    /\ lookups' = StartLookups(batch)
    /\ bootFetches' = bootFetches + (IF dirFetched THEN 0 ELSE Len(batch))
    /\ UNCHANGED <<rdapGets, res>>

\* the handler reaches Promise.allSettled(sanitised.map(rdapCheck))
FanOut(batch) ==
    /\ pc' = "fanout"
    /\ lookups' = StartLookups(batch)
    /\ bootFetches' = bootFetches + Len(batch)
    /\ UNCHANGED <<rdapGets, res>>

\* the handler returns a response
Reply(response) ==
    /\ pc' = "done"
    /\ res' = response
    /\ UNCHANGED <<lookups, bootFetches, rdapGets>>

\* a request arrives: the handler runs to its first await or to its return
Receive(method, isArray, domains) ==
    /\ pc = "idle"
    /\ req' = [method |-> method, isArray |-> isArray, domains |-> domains]
    /\ UNCHANGED <<env, dirFetched, sanVars, suggestVars, webhookVars>>
    /\ IF method = "OPTIONS"
       THEN Reply(PlainResponse(200, "end")) /\ UNCHANGED <<sanitised, primary>>
       ELSE IF method # "POST"
       THEN Reply(PlainResponse(405, "error")) /\ UNCHANGED <<sanitised, primary>>
       ELSE IF ~isArray \/ Len(domains) = 0
       THEN Reply(PlainResponse(400, "error")) /\ UNCHANGED <<sanitised, primary>>
       ELSE /\ sanitised' = Sanitise(domains)
            /\ IF Len(Sanitise(domains)) = 0
               THEN Reply(PlainResponse(400, "error")) /\ UNCHANGED primary
               ELSE IF Configured
               THEN /\ primary' = [calls |-> primary.calls + 1,
                                   transport |-> "pending", xml |-> NoXml]
                    /\ pc' = "primary"
                    /\ UNCHANGED <<lookups, bootFetches, rdapGets, res>>
               ELSE FanOut(Sanitise(domains)) /\ UNCHANGED primary

\* mutant: a rejected registrar fetch is issued once more
PrimaryThrowsRetries(how) ==
    /\ pc = "primary"
    /\ primary' = [primary EXCEPT !.calls = @ + 1]
    /\ UNCHANGED <<pc, lookups, bootFetches, rdapGets, res>>
    /\ UNCHANGED <<env, req, sanitised, dirFetched, sanVars, suggestVars, webhookVars>>

\* mutant: the rejection of the registrar fetch is not caught
PrimaryThrowsUncaught(how) ==
    /\ pc = "primary"
    /\ primary' = [primary EXCEPT !.transport = how]
    /\ Reply(PlainResponse(500, "error"))
    /\ UNCHANGED <<env, req, sanitised, dirFetched, sanVars, suggestVars, webhookVars>>

\* the registrar fetch (or reading its body) rejects: caught, fall back
PrimaryThrows(how) ==
    /\ pc = "primary"
    /\ primary' = [primary EXCEPT !.transport = how]
    /\ FanOut(sanitised)
    /\ UNCHANGED <<env, req, sanitised, dirFetched, sanVars, suggestVars, webhookVars>>

\* the registrar answers with a body: marker check, parsing, return or throw
PrimaryResponds(xml) ==
    /\ pc = "primary"
    /\ primary' = [primary EXCEPT !.transport = "ok", !.xml = xml]
    /\ UNCHANGED <<env, req, sanitised, dirFetched, sanVars, suggestVars, webhookVars>>
    /\ IF HasErrorMarker(xml)
       THEN FanOut(sanitised)
       ELSE IF HasResults(ParseXml(xml))
       THEN Reply(JsonResponse(ParseXml(xml).results,
                               ParseXml(xml).premiumPrices, "namecheap"))
       ELSE FanOut(sanitised)

\* rdapCheck returns { domain, available }: the promise is fulfilled
Settle(l, available) ==
    [l EXCEPT !.pc = "done", !.settled = "fulfilled", !.available = available]

\* mutant: the rejection of the bootstrap fetch escapes rdapCheck
BootstrapFailsRejects(i, how) ==
    /\ pc = "fanout"
    /\ i \in DOMAIN lookups
    /\ lookups[i].pc = "bootstrap"
    /\ lookups' = [lookups EXCEPT
                     ![i] = [@ EXCEPT !.boot = how, !.pc = "done",
                                      !.settled = "rejected"]]
    /\ UNCHANGED <<env, pc, req, sanitised, primary, bootFetches, rdapGets,
                   res, dirFetched, sanVars, suggestVars, webhookVars>>

\* the bootstrap fetch of lookup i rejects (transport error, bad body, timeout)
BootstrapFails(i, how) ==
    /\ pc = "fanout"
    /\ i \in DOMAIN lookups
    /\ lookups[i].pc = "bootstrap"
    /\ lookups' = [lookups EXCEPT ![i] = Settle([@ EXCEPT !.boot = how], JNull)]
    /\ UNCHANGED <<env, pc, req, sanitised, primary, bootFetches, rdapGets,
                   res, dirFetched, sanVars, suggestVars, webhookVars>>

\* the bootstrap fetch of lookup i answers with a directory
BootstrapAnswers(i, services) ==
    /\ pc = "fanout"
    /\ i \in DOMAIN lookups
    /\ lookups[i].pc = "bootstrap"
    /\ dirFetched' = TRUE
    /\ LET rdapBase == FindBase(services, TldOf(lookups[i].domain))
           listed == SuffixListed(services, TldOf(lookups[i].domain))
       IN  IF rdapBase = <<>>
           THEN /\ lookups' = [lookups EXCEPT
                                 ![i] = Settle([@ EXCEPT !.boot = "ok",
                                                         !.listed = listed],
                                               JNull)]
                /\ UNCHANGED rdapGets
           ELSE /\ lookups' = [lookups EXCEPT
                                 ![i] = [@ EXCEPT !.boot = "ok", !.pc = "get",
                                                  !.listed = listed,
                                                  !.rdapBase = rdapBase,
                                                  !.get = "pending"]]
                /\ rdapGets' = rdapGets + 1
    /\ UNCHANGED <<env, pc, req, sanitised, primary, bootFetches, res, sanVars, suggestVars, webhookVars>>

\* the registry GET of lookup i answers with a status
GetAnswers(i, status) ==
    /\ pc = "fanout"
    /\ i \in DOMAIN lookups
    /\ lookups[i].pc = "get"
    /\ lookups' = [lookups EXCEPT
                     ![i] = Settle([@ EXCEPT !.get = "status", !.status = status],
                                   StatusToAvailable(status))]
    /\ UNCHANGED <<env, pc, req, sanitised, primary, bootFetches, rdapGets,
                   res, dirFetched, sanVars, suggestVars, webhookVars>>

\* the registry GET of lookup i rejects (transport error, timeout)
GetFails(i, how) ==
    /\ pc = "fanout"
    /\ i \in DOMAIN lookups
    /\ lookups[i].pc = "get"
    /\ lookups' = [lookups EXCEPT ![i] = Settle([@ EXCEPT !.get = how], JNull)]
    /\ UNCHANGED <<env, pc, req, sanitised, primary, bootFetches, rdapGets,
                   res, dirFetched, sanVars, suggestVars, webhookVars>>

\* mutant: the merge keeps only outcomes with a definite answer
RECURSIVE MergeSettledDropsUnknown(_, _)
MergeSettledDropsUnknown(settled, results) ==
    IF settled = <<>> THEN results
    ELSE MergeSettledDropsUnknown(Tail(settled),
             IF Head(settled).settled = "fulfilled"
                /\ Head(settled).available # JNull
             THEN Put(results, Head(settled).domain, Head(settled).available)
             ELSE results)

\* for (const outcome of settled) if fulfilled: results[domain] = available
RECURSIVE MergeSettled(_, _)
MergeSettled(settled, results) ==
    IF settled = <<>> THEN results
    ELSE MergeSettled(Tail(settled),
             IF Head(settled).settled = "fulfilled"
             THEN Put(results, Head(settled).domain, Head(settled).available)
             ELSE results)

\* mutant: the handler resumes as soon as one promise has settled
AnySettled == \E i \in DOMAIN lookups : lookups[i].settled # "pending"

\* Promise.allSettled resolves once every promise has settled
AllSettled == \A i \in DOMAIN lookups : lookups[i].settled # "pending"

\* mutant: the merge goes on from the mapping parsed in the primary block
RespondMixed ==
    /\ pc = "fanout"
    /\ AllSettled
    /\ Reply(JsonResponse(MergeSettled(lookups, ParseXml(primary.xml).results),
                          EmptyMap, "rdap"))
    /\ UNCHANGED <<env, req, sanitised, primary, dirFetched, sanVars, suggestVars, webhookVars>>

\* the handler resumes after allSettled, merges and returns
Respond ==
    /\ pc = "fanout"
    /\ AllSettled
    /\ Reply(JsonResponse(MergeSettled(lookups, EmptyMap), EmptyMap, "rdap"))
    /\ UNCHANGED <<env, req, sanitised, primary, dirFetched, sanVars, suggestVars, webhookVars>>

\* the request is over: its state is dropped, the process waits for the next
Finish ==
    /\ pc = "done"
    /\ pc' = "idle"
    /\ req' = NoRequest
    /\ sanitised' = <<>>
    /\ primary' = NoPrimary
    /\ lookups' = <<>>
    /\ bootFetches' = 0
    /\ rdapGets' = 0
    /\ res' = NoResponse
    /\ UNCHANGED <<env, dirFetched, sanVars, suggestVars, webhookVars>>

(* The other handlers at rest *)

\* the users known to Clerk
Users == {"alice", "bob"}

Reqs == 1 .. MaxReq

\* a suggestion request that has not arrived; user and plan are those of
\* the verified token, "" before; status 0: no response yet
NoSuggest ==
    [pc |-> "idle", description |-> "", user |-> "", plan |-> "",
     status |-> 0, incremented |-> FALSE]

SuggestIdle ==
    /\ usage = [u \in Users |-> 0]
    /\ usageStart = [u \in Users |-> 0]
    /\ sreq = [r \in Reqs |-> NoSuggest]

Hooks == 1 .. MaxHooks

\* a webhook request that has not arrived; plan: the value of the PATCH it
\* is about to send, wrote: the value Clerk stored for it, "" for none
NoHook ==
    [pc |-> "idle", body |-> <<>>, hasSig |-> FALSE, sig |-> <<>>,
     status |-> 0, plan |-> "", wrote |-> ""]

WebhookIdle ==
    /\ hooks = [h \in Hooks |-> NoHook]
    /\ clerkPlan = [u \in Users |-> ""]

\* domains arrays of the requests of the model
RECURSIVE SeqsUpTo(_, _)
SeqsUpTo(S, n) ==
    IF n = 0 THEN {<<>>}
    ELSE SeqsUpTo(S, n - 1)
         \cup {Append(q, e) : q \in {r \in SeqsUpTo(S, n - 1) : Len(r) = n - 1},
                              e \in S}

Init ==
    /\ env \in [key : BOOLEAN, user : BOOLEAN]
    /\ HandlerIdle
    /\ dirFetched = FALSE
    /\ sanRaw = <<>>
    /\ sanOut = <<>>
    /\ sanDone = FALSE
    /\ SuggestIdle
    /\ WebhookIdle

Next ==
    \/ \E m \in {"OPTIONS", "GET", "POST"} : Receive(m, FALSE, <<>>)
    \/ \E d \in SeqsUpTo(RawPool, MaxRaw) : Receive("POST", TRUE, d)
    \/ \E how \in {"error", "timeout"} : PrimaryThrows(how)
    \/ \E xml \in XmlBodies : PrimaryResponds(xml)
    \/ \E i \in DOMAIN lookups, how \in {"error", "timeout"} : BootstrapFails(i, how)
    \/ \E i \in DOMAIN lookups, dir \in Directories : BootstrapAnswers(i, dir)
    \/ \E i \in DOMAIN lookups, s \in Statuses : GetAnswers(i, s)
    \/ \E i \in DOMAIN lookups, how \in {"error", "timeout"} : GetFails(i, how)
    \/ Respond
    \/ Finish

Spec == Init /\ [][Next]_vars

---------------------------------------------------------------------------
(* The sanitiser on its own *)

SanOddCount(s) == Cardinality({i \in DOMAIN s : s[i] # sAIo})

\* the caller appends one entry to the domains array
SanAppend(e) ==
    /\ ~sanDone
    /\ Len(sanRaw) < MaxSanRaw
    /\ SanOddCount(Append(sanRaw, e)) <= MaxSanOdd
    /\ sanRaw' = Append(sanRaw, e)
    /\ UNCHANGED <<sanOut, sanDone>>
    /\ UNCHANGED <<handlerVars, suggestVars, webhookVars>>

\* const sanitised = domains.map(...).filter(...).slice(0, 20)
SanApply ==
    /\ ~sanDone
    /\ sanOut' = Sanitise(sanRaw)
    /\ sanDone' = TRUE
    /\ UNCHANGED sanRaw
    /\ UNCHANGED <<handlerVars, suggestVars, webhookVars>>

SanInit ==
    /\ env = [key |-> FALSE, user |-> FALSE]
    /\ HandlerIdle
    /\ dirFetched = FALSE
    /\ sanRaw = <<>>
    /\ sanOut = <<>>
    /\ sanDone = FALSE
    /\ SuggestIdle
    /\ WebhookIdle

SanNext ==
    \/ \E e \in {sAIo, sBCoRaw, sHyphen} : SanAppend(e)
    \/ SanApply

SpecSan == SanInit /\ [][SanNext]_vars

---------------------------------------------------------------------------
(* The authenticated suggestion handler and its usage counter *)

sBearer == <<"B", "e", "a", "r", "e", "r", " ">>
sAuthBearer == sBearer \o <<"j", "w", "t">>
sAuthBasic == <<"B", "a", "s", "i", "c", " ", "x">>

\* Authorization headers of the requests; <<>>: no header
AuthHeaders == {<<>>, sAuthBasic, sBearer, sAuthBearer}

\* s.startsWith(prefix)
StartsWith(s, prefix) ==
    Len(s) >= Len(prefix) /\ SubSeq(s, 1, Len(prefix)) = prefix

\* authHeader.startsWith('Bearer ') ? authHeader.slice(7) : null; null and
\* the empty token are both falsy and both <<>> here
TokenOf(authHeader) ==
    IF StartsWith(authHeader, sBearer)
    THEN SubSeq(authHeader, Len(sBearer) + 1, Len(authHeader))
    ELSE <<>>

\* payloads verifyClerkToken returns; a plan of "" is an absent field
Payloads ==
    [sub : Users, metadataPlan : {"", "pro"}, publicPlan : {"", "free", "pro"}]

\* payload.metadata?.plan || payload.publicMetadata?.plan || 'free'
PlanOf(payload) ==
    IF payload.metadataPlan # "" THEN payload.metadataPlan
    ELSE IF payload.publicPlan # "" THEN payload.publicPlan
    ELSE "free"

MeteredAlways(plan) == TRUE

\* plan !== 'pro'
Metered(plan) == plan # "pro"

\* description of the request body: absent, a number, a non-empty string
Descriptions == {"missing", "number", "text"}

\* !(!description || typeof description !== 'string')
DescriptionOk(description) == description = "text"

\* the decimal string Redis keeps for a counter
RECURSIVE Decimal(_)
Decimal(n) ==
    IF n < 10 THEN <<DigitChars[n + 1]>>
    ELSE Decimal(n \div 10) \o <<DigitChars[(n % 10) + 1]>>

\* data.result of GET: null for a key that was never incremented
GetResult(n) == IF n = 0 THEN <<>> ELSE Decimal(n)

\* parseInt(s, 10) of a string without sign or leading space
parseInt(s) ==
    LET n == DigitPrefixLen(s)
    IN  [nan |-> n = 0, val |-> DigitsValue(SubSeq(s, 1, n))]

\* parseInt(data.result || '0', 10) >= FREE_LIMIT
OverLimit(result) ==
    LET u == parseInt(IF result = <<>> THEN <<"0">> ELSE result)
    IN  ~u.nan /\ u.val >= FREE_LIMIT

\* return res.status(status)...
SuggestDone(q, status) == [q EXCEPT !.pc = "done", !.status = status]

\* from the validation of the description to the call of Anthropic
AfterUsage(q) ==
    IF DescriptionOk(q.description)
    THEN [q EXCEPT !.pc = "generate"]
    ELSE SuggestDone(q, 400)

\* a request arrives: method and token checks, up to await verifyClerkToken
SuggestReceive(r, method, authHeader, description) ==
    /\ sreq[r].pc = "idle"
    /\ r > 1 => sreq[r - 1].pc # "idle"
    /\ sreq' = [sreq EXCEPT ![r] =
                  IF method = "OPTIONS" THEN SuggestDone(@, 200)
                  ELSE IF method # "POST" THEN SuggestDone(@, 405)
                  ELSE IF TokenOf(authHeader) = <<>> THEN SuggestDone(@, 401)
                  ELSE [@ EXCEPT !.pc = "verify",
                                 !.description = description]]
    /\ UNCHANGED <<usage, usageStart, handlerVars, sanVars, webhookVars>>

\* verifyClerkToken resolves to null
VerifyRejects(r) ==
    /\ sreq[r].pc = "verify"
    /\ sreq' = [sreq EXCEPT ![r] = SuggestDone(@, 401)]
    /\ UNCHANGED <<usage, usageStart, handlerVars, sanVars, webhookVars>>

\* verifyClerkToken resolves to the payload of the token
VerifyAccepts(r, payload) ==
    /\ sreq[r].pc = "verify"
    /\ sreq' = [sreq EXCEPT ![r] =
                  LET q == [@ EXCEPT !.user = payload.sub,
                                     !.plan = PlanOf(payload)]
                  IN  IF Metered(q.plan) THEN [q EXCEPT !.pc = "usage"]
                      ELSE AfterUsage(q)]
    /\ UNCHANGED <<usage, usageStart, handlerVars, sanVars, webhookVars>>

\* getUsage resolves: Upstash answers with the counter, or with an error
\* body that has no result
UsageAnswers(r, how) ==
    /\ sreq[r].pc = "usage"
    /\ sreq' = [sreq EXCEPT ![r] =
                  LET result == IF how = "result"
                                THEN GetResult(usage[@.user]) ELSE <<>>
                  IN  IF OverLimit(result) THEN SuggestDone(@, 402)
                      ELSE AfterUsage(@)]
    /\ UNCHANGED <<usage, usageStart, handlerVars, sanVars, webhookVars>>

\* getUsage rejects, outside any try: the platform answers 500
UsageFails(r) ==
    /\ sreq[r].pc = "usage"
    /\ sreq' = [sreq EXCEPT ![r] = SuggestDone(@, 500)]
    /\ UNCHANGED <<usage, usageStart, handlerVars, sanVars, webhookVars>>

\* what the call of Anthropic can come to
Generations == {"array", "empty", "text", "httpError", "rejects"}

\* a non-empty array of suggestions came back
Usable(generation) == generation = "array"

\* the call of Anthropic settles; the suggestions are built or the catch
\* answers 500
GenerateSettles(r, generation) ==
    /\ sreq[r].pc = "generate"
    /\ sreq' = [sreq EXCEPT ![r] =
                  IF ~Usable(generation) THEN SuggestDone(@, 500)
                  ELSE IF Metered(@.plan) THEN [@ EXCEPT !.pc = "incr"]
                  ELSE SuggestDone(@, 200)]
    /\ UNCHANGED <<usage, usageStart, handlerVars, sanVars, webhookVars>>

\* the INCR of incrementUsage settles: "ok" applied, "refused" answered with
\* an error status, "lost" applied but the fetch rejects, "rejects" not sent;
\* a rejection is caught and the handler answers 200
IncrSettles(r, how) ==
    /\ sreq[r].pc = "incr"
    /\ LET applied == how \in {"ok", "lost"}
           u == sreq[r].user
       IN  /\ usage' = IF applied THEN [usage EXCEPT ![u] = @ + 1] ELSE usage
           /\ sreq' = [sreq EXCEPT ![r] =
                         LET q == [@ EXCEPT !.incremented = applied]
                         IN  IF how \in {"ok", "refused"}
                             THEN [q EXCEPT !.pc = "expire"]
                             ELSE SuggestDone(q, 200)]
    /\ UNCHANGED <<usageStart, handlerVars, sanVars, webhookVars>>

\* the EXPIRE of incrementUsage settles either way; the handler answers 200
ExpireSettles(r) ==
    /\ sreq[r].pc = "expire"
    /\ sreq' = [sreq EXCEPT ![r] = SuggestDone(@, 200)]
    /\ UNCHANGED <<usage, usageStart, handlerVars, sanVars, webhookVars>>

\* the month so far: every user has had between no and all of the free
\* generations, each counted
SuggestInit ==
    /\ env = [key |-> FALSE, user |-> FALSE]
    /\ HandlerIdle
    /\ dirFetched = FALSE
    /\ sanRaw = <<>>
    /\ sanOut = <<>>
    /\ sanDone = FALSE
    /\ usageStart \in [Users -> {0, FREE_LIMIT - 1, FREE_LIMIT}]
    /\ usage = usageStart
    /\ sreq = [r \in Reqs |-> NoSuggest]
    /\ WebhookIdle

SuggestNext ==
    \/ \E r \in Reqs, m \in {"OPTIONS", "GET"} :
         SuggestReceive(r, m, <<>>, "missing")
    \/ \E r \in Reqs, a \in AuthHeaders, d \in Descriptions :
         SuggestReceive(r, "POST", a, d)
    \/ \E r \in Reqs : VerifyRejects(r)
    \/ \E r \in Reqs, p \in Payloads : VerifyAccepts(r, p)
    \/ \E r \in Reqs, how \in {"result", "error"} : UsageAnswers(r, how)
    \/ \E r \in Reqs : UsageFails(r)
    \/ \E r \in Reqs, g \in Generations : GenerateSettles(r, g)
    \/ \E r \in Reqs, how \in {"ok", "refused", "lost", "rejects"} :
         IncrSettles(r, how)
    \/ \E r \in Reqs : ExpireSettles(r)

SpecSuggest == SuggestInit /\ [][SuggestNext]_vars

---------------------------------------------------------------------------
(* The Stripe webhook handler *)

\* process.env.STRIPE_WEBHOOK_SECRET, and a key that is not the secret
Secret == <<"k">>
OtherKey == <<"x">>

\* createHmac('sha256', key).update(message).digest('hex'): a string fixed
\* by key and message, equal for equal keys and messages only, and free of
\* commas
Hmac(key, message) == <<"#">> \o key \o <<":">> \o message

\* raw bodies: type (created, updated, deleted or other), subscription
\* status (active or past_due) and metadata.clerk_user_id (Alice, Bob or
\* absent), one letter each; bNotJson does not parse
bCreatedActiveAlice == <<"c", "a", "A">>
bUpdatedPastDueAlice == <<"u", "p", "A">>
bUpdatedActiveBob == <<"u", "a", "B">>
bDeletedAlice == <<"d", "a", "A">>
bDeletedNobody == <<"d", "a", "-">>
bCreatedNobody == <<"c", "a", "-">>
bOtherAlice == <<"o", "a", "A">>
bNotJson == <<"?">>

Bodies ==
    {bCreatedActiveAlice, bUpdatedPastDueAlice, bUpdatedActiveBob,
     bDeletedAlice, bDeletedNobody, bCreatedNobody, bOtherAlice, bNotJson}

\* JSON.parse(rawBody.toString()) succeeds
IsJson(body) == Len(body) = 3

\* event.type
EventType(body) ==
    CASE body[1] = "c" -> "customer.subscription.created"
      [] body[1] = "u" -> "customer.subscription.updated"
      [] body[1] = "d" -> "customer.subscription.deleted"
      [] OTHER -> "invoice.paid"

\* event.data.object.status
EventStatus(body) == IF body[2] = "a" THEN "active" ELSE "past_due"

\* event.data.object.metadata?.clerk_user_id, "" when absent
EventUser(body) ==
    CASE body[3] = "A" -> "alice"
      [] body[3] = "B" -> "bob"
      [] OTHER -> ""

\* the signed text: `${timestamp}.${payload}`
SignedText(timestamp, payload) == timestamp \o <<".">> \o payload

\* a Stripe-Signature header for a body: timestamp, then the v1 scheme
\* computed with a key
HeaderFor(timestamp, body, key) ==
    <<"t", "=">> \o timestamp \o <<",", "v", "1", "=">>
    \o Hmac(key, SignedText(timestamp, body))

\* the same with the v0 scheme in front of the v1 scheme
HeaderWithV0(timestamp, body, key) ==
    <<"t", "=">> \o timestamp \o <<",", "v", "0", "=", "z", ",", "v", "1", "=">>
    \o Hmac(key, SignedText(timestamp, body))

\* headers of the requests with a body: as Stripe sends them, computed with
\* another key, taken from another body or another time, or lacking a part
SigHeaders(body) ==
    {HeaderFor(<<"1">>, body, Secret),
     HeaderWithV0(<<"1">>, body, Secret),
     HeaderFor(<<"1">>, body, OtherKey),
     HeaderFor(<<"1">>, bOtherAlice, Secret),
     <<"t", "=", "2", ",", "v", "1", "=">> \o Hmac(Secret, SignedText(<<"1">>, body)),
     <<"t", "=", "1">>,
     <<"v", "1", "=">> \o Hmac(Secret, SignedText(<<"1">>, body)),
     <<"t", "=", ",", "v", "1", "=">>}

\* sigHeader.split(',')
RECURSIVE SplitComma(_)
SplitComma(s) ==
    IF "," \notin Range(s) THEN <<s>>
    ELSE LET i == CHOOSE k \in DOMAIN s :
                     s[k] = "," /\ \A j \in 1 .. k - 1 : s[j] # ","
         IN  <<SubSeq(s, 1, i - 1)>> \o SplitComma(SubSeq(s, i + 1, Len(s)))

\* parts.find(p => p.startsWith(prefix))?.slice(prefix.length); undefined
\* and the empty string are both falsy and both <<>> here
PartValue(parts, prefix) ==
    LET hits == {i \in DOMAIN parts : StartsWith(parts[i], prefix)}
    IN  IF hits = {} THEN <<>>
        ELSE LET i == CHOOSE k \in hits : \A j \in hits : k <= j
             IN  SubSeq(parts[i], Len(prefix) + 1, Len(parts[i]))

verifyStripeSignaturePresence(payload, sigHeader, secret) ==
    LET parts == SplitComma(sigHeader)
    IN  PartValue(parts, <<"t", "=">>) # <<>>
        /\ PartValue(parts, <<"v", "1", "=">>) # <<>>

verifyStripeSignature(payload, sigHeader, secret) ==
    LET parts == SplitComma(sigHeader)
        timestamp == PartValue(parts, <<"t", "=">>)
        signature == PartValue(parts, <<"v", "1", "=">>)
    IN  /\ timestamp # <<>>
        /\ signature # <<>>
        /\ Hmac(secret, SignedText(timestamp, payload)) = signature

\* sub.status === 'active' ? 'pro' : 'free'
PlanFor(status) == IF status = "active" THEN "pro" ELSE "free"

\* return res.status(status)...
HookDone(q, status) == [q EXCEPT !.pc = "done", !.status = status]

\* after the signature: the event is parsed and the handler either returns
\* or sends the PATCH of the plan
Dispatch(q) ==
    LET type == EventType(q.body)
        userId == EventUser(q.body)
    IN  IF ~IsJson(q.body) THEN HookDone(q, 500)
        ELSE IF type \in {"customer.subscription.created",
                          "customer.subscription.updated"}
        THEN IF userId = "" THEN HookDone(q, 200)
             ELSE [q EXCEPT !.pc = "patch",
                            !.plan = PlanFor(EventStatus(q.body))]
        ELSE IF type = "customer.subscription.deleted" /\ userId # ""
        THEN [q EXCEPT !.pc = "patch", !.plan = "free"]
        ELSE HookDone(q, 200)

\* a request arrives; the handler waits for its body
HookReceive(h, method, body, hasSig, sigHeader) ==
    /\ hooks[h].pc = "idle"
    /\ h > 1 => hooks[h - 1].pc # "idle"
    /\ hooks' = [hooks EXCEPT ![h] =
                   IF method # "POST" THEN HookDone(@, 405)
                   ELSE [@ EXCEPT !.pc = "body", !.body = body,
                                  !.hasSig = hasSig, !.sig = sigHeader]]
    /\ UNCHANGED <<clerkPlan, handlerVars, sanVars, suggestVars>>

\* the body has been read: the signature is verified and the event handled
\* up to the PATCH; without the header sigHeader.split throws and the
\* platform answers 500
HookBody(h) ==
    /\ hooks[h].pc = "body"
    /\ hooks' = [hooks EXCEPT ![h] =
                   IF ~@.hasSig THEN HookDone(@, 500)
                   ELSE IF ~verifyStripeSignature(@.body, @.sig, Secret)
                   THEN HookDone(@, 400)
                   ELSE Dispatch(@)]
    /\ UNCHANGED <<clerkPlan, handlerVars, sanVars, suggestVars>>

\* reading the body rejects: the platform answers 500
HookBodyError(h) ==
    /\ hooks[h].pc = "body"
    /\ hooks' = [hooks EXCEPT ![h] = HookDone(@, 500)]
    /\ UNCHANGED <<clerkPlan, handlerVars, sanVars, suggestVars>>

\* the PATCH settles: "ok" stored, "refused" answered with an error status,
\* "lost" stored but the fetch rejects, "rejects" not sent; a rejection is
\* not caught and the platform answers 500
PatchSettles(h, how) ==
    /\ hooks[h].pc = "patch"
    /\ LET stored == how \in {"ok", "lost"}
           u == EventUser(hooks[h].body)
       IN  /\ clerkPlan' = IF stored THEN [clerkPlan EXCEPT ![u] = hooks[h].plan]
                           ELSE clerkPlan
           /\ hooks' = [hooks EXCEPT ![h] =
                          HookDone([@ EXCEPT !.wrote = IF stored
                                                       THEN hooks[h].plan
                                                       ELSE ""],
                                   IF how \in {"ok", "refused"} THEN 200
                                   ELSE 500)]
    /\ UNCHANGED <<handlerVars, sanVars, suggestVars>>

WebhookInit ==
    /\ env = [key |-> FALSE, user |-> FALSE]
    /\ HandlerIdle
    /\ dirFetched = FALSE
    /\ sanRaw = <<>>
    /\ sanOut = <<>>
    /\ sanDone = FALSE
    /\ SuggestIdle
    /\ WebhookIdle

WebhookNext ==
    \/ \E h \in Hooks : HookReceive(h, "GET", <<>>, FALSE, <<>>)
    \/ \E h \in Hooks, b \in Bodies : HookReceive(h, "POST", b, FALSE, <<>>)
    \/ \E h \in Hooks, b \in Bodies :
         \E s \in SigHeaders(b) : HookReceive(h, "POST", b, TRUE, s)
    \/ \E h \in Hooks : HookBody(h)
    \/ \E h \in Hooks : HookBodyError(h)
    \/ \E h \in Hooks, how \in {"ok", "refused", "lost", "rejects"} :
         PatchSettles(h, how)

SpecWebhook == WebhookInit /\ [][WebhookNext]_vars

---------------------------------------------------------------------------
(* Properties *)

\* the largest element of a non-empty set of integers
MaxOf(S) == CHOOSE i \in S : \A j \in S : j <= i

\* the request took the secondary path
OnSecondaryPath == pc = "fanout" \/ res.source = "rdap"

\* the registrar answered, without error marker, with a record naming a domain
PrimarySucceeded ==
    /\ primary.transport = "ok"
    /\ ~primary.xml.marker
    /\ \E i \in DOMAIN primary.xml.records : primary.xml.records[i].Domain # <<>>

\* C1: whenever the registrar query succeeds with at least one domain record,
\* the response carries the source tag of the registrar and the request issues
\* no bootstrap fetch and no registry GET (no rdapCheck call is made).
C1_PrimarySuccessNoSecondary ==
    PrimarySucceeded =>
        /\ pc = "done"
        /\ res.status = 200
        /\ res.source = "namecheap"
        /\ lookups = <<>>
        /\ bootFetches = 0
        /\ rdapGets = 0

C1_Witness ==
    /\ PrimarySucceeded
    /\ res.source = "namecheap"
    /\ Len(sanitised) = 2
    /\ Cardinality(DOMAIN res.results) = 1

\* the record that decided the answer of domain d on the primary path
LastRecordOf(d) ==
    primary.xml.records[
        MaxOf({i \in DOMAIN primary.xml.records :
                   toLowerCase(primary.xml.records[i].Domain) = d})]

\* the lookup that decided the answer of domain d on the secondary path
LastLookupOf(d) ==
    lookups[MaxOf({i \in DOMAIN lookups : lookups[i].domain = d})]

\* C2: a domain is reported as taken ("false") only when the source said it
\* is registered: on the primary path the record of the domain has an
\* Available attribute and it says false; on the secondary path the registry
\* answered 200.  A missing or ambiguous availability is never reported as
\* taken.
C2_UnknownNeverTaken ==
    \A d \in DOMAIN res.results :
        res.results[d] = JFalse =>
            /\ res.source = "namecheap" =>
                   /\ LastRecordOf(d).Available # <<>>
                   /\ toLowerCase(LastRecordOf(d).Available) = sFalse
            /\ res.source = "rdap" =>
                   /\ LastLookupOf(d).get = "status"
                   /\ LastLookupOf(d).status = 200

\* what one lookup answers, from what happened to its own two fetches
OwnAnswer(l) ==
    IF l.boot \in {"error", "timeout"} THEN JNull
    ELSE IF l.get = "status" /\ l.status = 404 THEN JTrue
    ELSE IF l.get = "status" /\ l.status = 200 THEN JFalse
    ELSE JNull

\* C3: on the secondary path one lookup per entry of the batch is started
\* (N lookups, N bootstrap fetches), whatever happens to the others; the
\* answer of each lookup depends on its own fetches only; and the response
\* holds a result for every domain of the batch.
C3_AllLookupsAttempted ==
    OnSecondaryPath =>
        /\ Len(lookups) = Len(sanitised)
        /\ bootFetches = Len(sanitised)
        /\ \A i \in DOMAIN lookups :
               /\ lookups[i].domain = sanitised[i]
               /\ lookups[i].pc = "done" =>
                      /\ lookups[i].settled = "fulfilled"
                      /\ lookups[i].available = OwnAnswer(lookups[i])
        /\ res.source = "rdap" =>
               /\ \A i \in DOMAIN lookups : lookups[i].pc = "done"
               /\ \A i \in DOMAIN sanitised :
                      /\ sanitised[i] \in DOMAIN res.results
                      /\ res.results[sanitised[i]]
                             = LastLookupOf(sanitised[i]).available

C3_Witness ==
    /\ res.source = "rdap"
    /\ Len(sanitised) = 2
    /\ lookups[1].boot = "timeout"
    /\ lookups[2].status = 404
    /\ Cardinality(DOMAIN res.results) = 2
    /\ res.results[sanitised[1]] = JNull
    /\ res.results[sanitised[2]] = JTrue

\* C4: a lookup answers "true" for status 404, "false" for status 200 and
\* "null" for every other status, for a transport error and for a timeout
\* (of the bootstrap fetch or of the registry GET); its promise is never
\* rejected.
C4_StatusMapping ==
    \A i \in DOMAIN lookups :
        /\ lookups[i].settled # "rejected"
        /\ lookups[i].pc = "done" =>
               /\ lookups[i].settled = "fulfilled"
               /\ (lookups[i].get = "status" /\ lookups[i].status = 404)
                      => lookups[i].available = JTrue
               /\ (lookups[i].get = "status" /\ lookups[i].status = 200)
                      => lookups[i].available = JFalse
               /\ (lookups[i].get = "status" /\ lookups[i].status \notin {200, 404})
                      => lookups[i].available = JNull
               /\ lookups[i].get \in {"error", "timeout"}
                      => lookups[i].available = JNull
               /\ lookups[i].boot \in {"error", "timeout"}
                      => lookups[i].available = JNull

C4_Witness ==
    /\ Len(lookups) = 2
    /\ lookups[1].get = "status" /\ lookups[1].status = 200
    /\ lookups[1].available = JFalse
    /\ lookups[2].get = "timeout"
    /\ lookups[2].available = JNull

C6_PremiumPriceOnlyPositive ==
    \A d \in DOMAIN res.premiumPrices :
        \E i \in DOMAIN primary.xml.records :
            LET attrs == primary.xml.records[i]
            IN  /\ toLowerCase(attrs.Domain) = d
                /\ toLowerCase(attrs.IsPremiumName) = sTrue
                /\ ~parseFloat(attrs.PremiumRegistrationPrice).nan
                /\ parseFloat(attrs.PremiumRegistrationPrice).val > 0

\* the domains array of the request holds a valid entry
SomeValidEntry ==
    /\ req.isArray
    /\ \E i \in DOMAIN req.domains :
           DomainRegexTest(trim(toLowerCase(req.domains[i])))

\* C7: a POST request with a valid entry always ends with a 200 response
\* holding a result mapping and a source tag, whatever failed on the way
\* (registrar transport, error marker, no record, bootstrap fetch, unknown
\* suffix, lookup timeout, unexpected status).
C7_OnlyValidationFails ==
    (pc = "done" /\ req.method = "POST" /\ SomeValidEntry) =>
        /\ res.status = 200
        /\ res.kind = "json"
        /\ res.source \in {"namecheap", "rdap"}
        /\ \A i \in DOMAIN lookups : lookups[i].settled = "fulfilled"

C7_Witness ==
    /\ pc = "done"
    /\ req.method = "POST"
    /\ primary.transport = "timeout"
    /\ Len(lookups) = 2
    /\ lookups[1].boot = "error"
    /\ lookups[2].get = "status" /\ lookups[2].status = 500
    /\ res.status = 200
    /\ res.source = "rdap"

\* C8: a POST request without any valid entry is answered 400 and nothing is
\* attempted: no registrar query, no bootstrap fetch, no registry GET.
C8_EmptyBatchRejected ==
    (pc # "idle" /\ req.method = "POST" /\ ~SomeValidEntry) =>
        /\ pc = "done"
        /\ res.status = 400
        /\ res.kind = "error"
        /\ primary.calls = 0
        /\ lookups = <<>>
        /\ bootFetches = 0
        /\ rdapGets = 0

C8_Witness ==
    /\ pc = "done"
    /\ req.method = "POST"
    /\ req.isArray
    /\ Len(req.domains) = 2
    /\ Configured
    /\ res.status = 400

\* the bootstrap fetch of every lookup of the request failed or timed out
EveryBootstrapFailed ==
    /\ lookups # <<>>
    /\ \A i \in DOMAIN lookups : lookups[i].boot \in {"error", "timeout"}

\* C9: a lookup whose bootstrap fetch fails or times out answers "null" and
\* issues no registry GET; when that happens to every lookup, the response
\* is still a 200 with the secondary source tag and every domain of the
\* batch is reported "null".
C9_BootstrapFailureUnknown ==
    /\ \A i \in DOMAIN lookups :
           lookups[i].boot \in {"error", "timeout"} =>
               /\ lookups[i].settled = "fulfilled"
               /\ lookups[i].available = JNull
               /\ lookups[i].get = "none"
    /\ (pc = "done" /\ EveryBootstrapFailed) =>
           /\ res.status = 200
           /\ res.source = "rdap"
           /\ rdapGets = 0
           /\ \A i \in DOMAIN sanitised :
                  /\ sanitised[i] \in DOMAIN res.results
                  /\ res.results[sanitised[i]] = JNull

C9_Witness ==
    /\ pc = "done"
    /\ EveryBootstrapFailed
    /\ Len(sanitised) = 2
    /\ sanitised[1] # sanitised[2]
    /\ lookups[1].boot = "timeout"
    /\ lookups[2].boot = "error"
    /\ res.source = "rdap"

\* the normalised entries of an array
NormOf(raw) == [i \in DOMAIN raw |-> trim(toLowerCase(raw[i]))]

\* the positions of the valid entries among normalised entries
ValidAt(norm) == {i \in DOMAIN norm : DomainRegexTest(norm[i])}

\* position i holds the k-th valid entry
IsKthValid(valid, i, k) ==
    i \in valid /\ Cardinality({j \in valid : j <= i}) = k

\* C10: the sanitised batch has at most 20 entries, and its k-th entry is the
\* k-th valid entry of the input, for the first 20 valid entries (all of them
\* when there are fewer).
C10_FirstTwentyValid ==
    sanDone =>
        LET norm == NormOf(sanRaw)
            valid == ValidAt(norm)
            count == Cardinality(valid)
        IN  /\ Len(sanOut) <= BatchCeiling
            /\ Len(sanOut) = IF count < BatchCeiling THEN count ELSE BatchCeiling
            /\ \A k \in DOMAIN sanOut :
                   \E i \in valid : IsKthValid(valid, i, k) /\ sanOut[k] = norm[i]

C10_Witness ==
    /\ sanDone
    /\ Len(sanOut) = BatchCeiling
    /\ LET norm == NormOf(sanRaw)
           valid == ValidAt(norm)
       IN  /\ Cardinality(valid) > BatchCeiling
           /\ \E i \in 1..BatchCeiling : i \notin valid
           /\ \E k \in DOMAIN sanOut, i \in valid :
                  /\ IsKthValid(valid, i, k)
                  /\ sanOut[k] = sBCo
                  /\ i > k

\* the DomainName grammar of the data model: label(.label)+, every label an
\* alphanumeric character followed by alphanumerics and hyphens, the final
\* label two letters at least
IsDomainName(d) ==
    LET dots == {i \in DOMAIN d : d[i] = "."}
        alnum == LowerSet \cup DigitSet
    IN  /\ dots # {}
        /\ \A i \in DOMAIN d : d[i] \in alnum \cup {"-", "."}
        /\ d[1] \in alnum
        /\ \A i \in dots : i < Len(d) /\ d[i + 1] \in alnum
        /\ LET last == MaxOf(dots)
           IN  /\ Len(d) - last >= 2
               /\ \A i \in (last + 1)..Len(d) : d[i] \in LowerSet

\* C11: every entry of the domains array that is a DomainName once lowercased
\* and trimmed (names of more than two labels included) is kept, so
\* normalised, in the sanitised batch.
C11_ValidNamesKept ==
    (pc # "idle" /\ req.method = "POST" /\ req.isArray) =>
        \A i \in DOMAIN req.domains :
            LET name == trim(toLowerCase(req.domains[i]))
            IN  IsDomainName(name) =>
                    \E k \in DOMAIN sanitised : sanitised[k] = name

\* C12: sanitising a sanitised batch gives the same batch.
C12_SanitiseIdempotent == sanDone => Sanitise(sanOut) = sanOut

C12_Witness ==
    /\ sanDone
    /\ Len(sanRaw) > BatchCeiling
    /\ Len(sanOut) = BatchCeiling
    /\ \E i \in DOMAIN sanRaw : sanRaw[i] = sBCoRaw
    /\ \E i \in DOMAIN sanRaw : sanRaw[i] = sHyphen
    /\ \E k \in DOMAIN sanOut : sanOut[k] = sBCo

\* C13: a lookup whose suffix no service of the directory lists answers
\* "null" and issues no registry GET, and the batch goes on: the other
\* lookups are unaffected and the response reports every domain.
C13_AbsentSuffixUnknown ==
    /\ \A i \in DOMAIN lookups :
           (lookups[i].boot = "ok" /\ ~lookups[i].listed) =>
               /\ lookups[i].pc = "done"
               /\ lookups[i].settled = "fulfilled"
               /\ lookups[i].available = JNull
               /\ lookups[i].get = "none"
               /\ \A j \in DOMAIN lookups :
                      (j # i /\ lookups[j].pc = "done") =>
                          lookups[j].available = OwnAnswer(lookups[j])
    /\ rdapGets = Cardinality({i \in DOMAIN lookups : lookups[i].get # "none"})
    /\ (pc = "done" /\ res.source = "rdap") =>
           \A i \in DOMAIN lookups :
               (lookups[i].boot = "ok" /\ ~lookups[i].listed) =>
                   /\ \A k \in DOMAIN sanitised : sanitised[k] \in DOMAIN res.results
                   /\ LastLookupOf(lookups[i].domain) = lookups[i] =>
                          res.results[lookups[i].domain] = JNull

C13_Witness ==
    /\ pc = "done"
    /\ res.source = "rdap"
    /\ Len(lookups) = 2
    /\ lookups[1].boot = "ok" /\ ~lookups[1].listed
    /\ lookups[2].get = "status" /\ lookups[2].status = 200
    /\ res.results[sanitised[1]] = JNull
    /\ res.results[sanitised[2]] = JFalse

\* C14: the response of the secondary path is sent only when every lookup
\* of the batch has settled; a first lookup that completes does not make the
\* handler return.
C14_NoEarlyReturn ==
    /\ res.source = "rdap" =>
           /\ lookups # <<>>
           /\ \A i \in DOMAIN lookups : lookups[i].settled # "pending"
    /\ (pc = "fanout" /\ \E i \in DOMAIN lookups : lookups[i].settled = "pending")
           => res = NoResponse

C14_Witness ==
    /\ pc = "fanout"
    /\ Len(lookups) = 2
    /\ lookups[1].settled = "pending"
    /\ lookups[2].settled = "fulfilled"
    /\ res = NoResponse

\* the registrar query of this request failed: rejected fetch, error marker,
\* or no record naming a domain
PrimaryFailed ==
    \/ primary.transport \in {"error", "timeout"}
    \/ primary.transport = "ok" /\ ~PrimarySucceeded

\* C15: a request queries the registrar once at most; after a failure of the
\* query the handler is on the secondary path and no second query is issued.
C15_PrimaryAtMostOnce ==
    /\ primary.calls <= 1
    /\ PrimaryFailed =>
           /\ primary.calls = 1
           /\ OnSecondaryPath
           /\ pc \in {"fanout", "done"}

C15_Witness ==
    /\ pc = "done"
    /\ primary.transport = "error"
    /\ primary.calls = 1
    /\ res.source = "rdap"

\* C16: a response tagged "rdap" holds, for the domains looked up and for no
\* other key, the answers of the lookups, and no premium price; a response
\* tagged "namecheap" holds what the records of the registrar body say and
\* no lookup was made for it.
C16_NoMixing ==
    /\ res.source = "rdap" =>
           /\ res.premiumPrices = EmptyMap
           /\ \A d \in DOMAIN res.results :
                  /\ \E i \in DOMAIN lookups : lookups[i].domain = d
                  /\ res.results[d] = OwnAnswer(LastLookupOf(d))
    /\ res.source = "namecheap" =>
           /\ lookups = <<>>
           /\ ~primary.xml.marker
           /\ \A d \in DOMAIN res.results :
                  /\ \E i \in DOMAIN primary.xml.records :
                         toLowerCase(primary.xml.records[i].Domain) = d
                  /\ res.results[d]
                         = JBool(toLowerCase(LastRecordOf(d).Available) = sTrue)
           /\ DOMAIN res.premiumPrices \subseteq DOMAIN res.results

C16_Witness ==
    /\ res.source = "rdap"
    /\ primary.transport = "ok"
    /\ primary.xml.records = <<rPlainTaken>>
    /\ sanitised = <<sBCo>>
    /\ DOMAIN res.results = {sBCo}

\* C17: when the registrar body holds an error marker, with or without
\* records, no response tagged "namecheap" is sent and the whole batch is on
\* the secondary path.
C17_ErrorMarkerFallsBack ==
    (primary.transport = "ok" /\ primary.xml.marker) =>
        /\ res.source # "namecheap"
        /\ OnSecondaryPath
        /\ Len(lookups) = Len(sanitised)
        /\ \A i \in DOMAIN lookups : lookups[i].domain = sanitised[i]
        /\ pc = "done" => res.source = "rdap"

C17_Witness ==
    /\ primary.transport = "ok"
    /\ primary.xml.marker
    /\ primary.xml.records # <<>>
    /\ Len(sanitised) = 2
    /\ res.source = "rdap"

\* C18: a response tagged "namecheap" has a non-empty result mapping; a body
\* read without marker and without any record naming a domain sends the
\* batch to the secondary path.
C18_PrimaryNeverEmpty ==
    /\ res.source = "namecheap" => DOMAIN res.results # {}
    /\ (primary.transport = "ok" /\ ~primary.xml.marker /\ ~PrimarySucceeded) =>
           /\ OnSecondaryPath
           /\ Len(lookups) = Len(sanitised)
           /\ pc = "done" => res.source = "rdap"

C18_Witness ==
    /\ primary.transport = "ok"
    /\ ~primary.xml.marker
    /\ primary.xml.records = <<rNoDomain>>
    /\ pc = "done"
    /\ res.source = "rdap"

\* C19: the registrar is queried only when both credentials are set; without
\* one of them a request with a valid entry goes to the fan-out at once.
C19_PrimaryNeedsCredentials ==
    /\ primary.calls > 0 => (env.key /\ env.user)
    /\ (~(env.key /\ env.user) /\ req.method = "POST" /\ SomeValidEntry) =>
           /\ primary = NoPrimary
           /\ OnSecondaryPath
           /\ Len(lookups) = Len(sanitised)

C19_Witness ==
    /\ env.key
    /\ ~env.user
    /\ pc = "fanout"
    /\ primary.calls = 0
    /\ Len(lookups) = 2

\* the domains of the sanitised batch
BatchDomains == {sanitised[i] : i \in DOMAIN sanitised}

\* C20 as stated: every key of the result mapping and of the premium price
\* mapping is a domain of the sanitised batch.
C20_KeysInBatch ==
    /\ DOMAIN res.results \subseteq BatchDomains
    /\ DOMAIN res.premiumPrices \subseteq BatchDomains

\* C20 as amended: on the secondary path the keys are the domains of the
\* batch; on the primary path every key is the lowercased Domain attribute
\* of a record of the registrar body, whether the batch holds it or not, and
\* every key of the premium prices is a key of the results.
C20_KeysFromSource ==
    /\ res.source = "rdap" => DOMAIN res.results = BatchDomains
    /\ res.source = "namecheap" =>
           /\ DOMAIN res.results
                  = {toLowerCase(primary.xml.records[i].Domain) :
                         i \in DOMAIN primary.xml.records} \ {<<>>}
           /\ DOMAIN res.premiumPrices \subseteq DOMAIN res.results

C20_Witness ==
    /\ res.source = "namecheap"
    /\ sanitised = <<sAIo>>
    /\ sBCo \in DOMAIN res.results
    /\ sBCo \in DOMAIN res.premiumPrices


\* the free generations a user has had this month: those before the requests
\* of the model and those the requests of the model were answered with
GenerationsServed(u) ==
    usageStart[u]
    + Cardinality({r \in Reqs : /\ sreq[r].user = u
                                /\ sreq[r].plan # "pro"
                                /\ sreq[r].pc = "done"
                                /\ sreq[r].status = 200})

\* C21: a user on the free plan never obtains more than FREE_LIMIT
\* successful generations in one month, however the requests of that user
\* interleave
C21_FreeLimitHolds ==
    \A u \in Users : GenerationsServed(u) <= FREE_LIMIT

\* C22: the usage counter of a user moves only by the INCR of a request of
\* that user that is not on the pro plan and that ends with 200; rejected
\* requests, failed generations and pro requests leave it as it was
C22_OnlySuccessIncrements ==
    /\ \A u \in Users :
         usage[u] = usageStart[u]
                    + Cardinality({r \in Reqs : /\ sreq[r].incremented
                                                /\ sreq[r].user = u})
    /\ \A r \in Reqs :
         sreq[r].incremented =>
            /\ sreq[r].plan # "pro"
            /\ sreq[r].status \in {0, 200}
            /\ sreq[r].pc = "done" => sreq[r].status = 200

\* a free request was counted and answered 200 while another request of
\* the same user was turned away with 402 and one ended with 500
C22_Witness ==
    \E r, q \in Reqs :
        /\ sreq[r].incremented /\ sreq[r].pc = "done" /\ sreq[r].status = 200
        /\ sreq[q].pc = "done" /\ sreq[q].status \in {402, 500}
        /\ sreq[q].user = sreq[r].user


\* the headers Stripe sends for a body: the time of sending and the scheme
\* v1 computed with the webhook secret over time and body
StripeSigned(body) ==
    {HeaderFor(<<"1">>, body, Secret), HeaderWithV0(<<"1">>, body, Secret)}

\* C23: Clerk stores a plan only for a webhook request that carries a
\* signature Stripe made for its body; "pro" only for a subscription
\* created or updated event whose status is active, "free" for every other
\* write; a request without such a signature writes nothing
C23_WritesOnlyWhenSigned ==
    /\ \A h \in Hooks :
         hooks[h].wrote # "" =>
            /\ hooks[h].hasSig
            /\ hooks[h].sig \in StripeSigned(hooks[h].body)
            /\ hooks[h].wrote \in {"pro", "free"}
            /\ hooks[h].wrote = "pro" <=>
                   /\ EventType(hooks[h].body)
                          \in {"customer.subscription.created",
                               "customer.subscription.updated"}
                   /\ EventStatus(hooks[h].body) = "active"
    /\ \A u \in Users :
         clerkPlan[u] # "" =>
            \E h \in Hooks : /\ hooks[h].wrote = clerkPlan[u]
                             /\ EventUser(hooks[h].body) = u

\* a signed created event of an active subscription has made Alice "pro"
C23_Witness ==
    \E h \in Hooks :
        /\ hooks[h].body = bCreatedActiveAlice
        /\ hooks[h].wrote = "pro"
        /\ hooks[h].status = 200
        /\ clerkPlan["alice"] = "pro"

=============================================================================
